---- MODULE Spec2Model ----
(***************************************************************************)
(* AnimalSpeedGraph (src/app/species-speed/animal-speed-graph.tsx).        *)
(*                                                                         *)
(* A React client component: one effect loads a CSV and stores the mapped  *)
(* rows in the animalData state, a second effect (dependency list          *)
(* [animalData]) clears the container and draws a d3 bar chart.            *)
(*                                                                         *)
(* Numbers are exact rationals [n, d] (n/d, d > 0); d = 0 is NaN.  CSV     *)
(* field texts are sequences of one-character strings.                     *)
(*                                                                         *)
(* SpeciesCard (same file): a card with a "Learn More" dialog and an edit  *)
(* dialog that shows the edit form to the author of the species and        *)
(* "Access Denied" to anyone else; onSubmit updates the species record in  *)
(* the record store.                                                       *)
(***************************************************************************)
EXTENDS Integers, Sequences, FiniteSets, TLC

VARIABLES
    phase,         \* "created" | "mounted" | "unmounted": the component's lifecycle
    graphRef,      \* graphRef.current is the container div (TRUE) or null (FALSE)
    clientSize,    \* <<clientWidth, clientHeight>> of the container, set by the layout
    fetchState,    \* "idle" | "pending" | "resolved" | "rejected": the d3.csv promise
    fetchCount,    \* number of d3.csv requests issued
    csvData,       \* the parsed rows the promise resolved with
    animalData,    \* the animalData state (useState)
    setCalls,      \* number of setAnimalData calls
    setPhase,      \* the lifecycle phase in which setAnimalData was last called
    effectPending, \* a commit with a changed animalData awaits its render effect
    container,     \* the children of the container div: a sequence of svg elements
    lastRun,       \* what the most recent run of the render effect did
    renders,       \* runs of the render effect since animalData was last set
    reruns,        \* number of re-invocations of the render effect on unchanged data
    \* SpeciesCard
    userId,         \* the userId prop
    species,        \* the species prop (a row of the species table)
    store,          \* the species table of the record store: id -> row
    isOpenOne,      \* the "Learn More" dialog is open
    isOpenTwo,      \* the edit dialog is open
    showFormDialog, \* the edit dialog shows the form (TRUE) or "Access Denied"
    form,           \* the values of the edit form's fields
    pending,        \* onSubmit calls awaiting supabase's answer
    outcome,        \* what the last onSubmit to return did after the await
    resets,         \* number of form.reset calls
    refreshes,      \* number of router.refresh calls
    refreshPending, \* a router.refresh has not yet delivered the new props
    submits         \* number of onSubmit calls

chartVars == <<phase, graphRef, clientSize, fetchState, fetchCount, csvData, animalData,
               setCalls, setPhase, effectPending, container, lastRun, renders, reruns>>

cardVars == <<userId, species, store, isOpenOne, isOpenTwo, showFormDialog, form,
              pending, outcome, resets, refreshes, refreshPending, submits>>

vars == <<chartVars, cardVars>>

----------------------------------------------------------------------------
(* Bounds of the model *)

MaxRows == 2        \* rows in the CSV file
MaxReruns == 2      \* re-invocations of the render effect (hot reload, strict mode)
MaxSubmits == 2     \* onSubmit calls of the edit form

----------------------------------------------------------------------------
(* Exact rational arithmetic standing for JavaScript numbers *)

\* Arithmetic helpers are functions, so that their arguments are values.
Q == [n : Int, d : Nat]

GCD[a \in Nat, b \in Nat] == IF b = 0 THEN a ELSE GCD[b, a % b]

Abs(i) == IF i < 0 THEN -i ELSE i

NaN == [n |-> 0, d |-> 0]

Rat(num, den) ==
    IF den = 0 THEN NaN
    ELSE LET s == IF den < 0 THEN -1 ELSE 1
             g == GCD[Abs(num), Abs(den)]
         IN  [n |-> (s * num) \div g, d |-> (s * den) \div g]

Int2R(i) == [n |-> i, d |-> 1]

IsNaN(a) == a.d = 0

RAdd[a \in Q, b \in Q] ==
    IF IsNaN(a) \/ IsNaN(b) THEN NaN ELSE Rat(a.n * b.d + b.n * a.d, a.d * b.d)
RSub[a \in Q, b \in Q] ==
    IF IsNaN(a) \/ IsNaN(b) THEN NaN ELSE Rat(a.n * b.d - b.n * a.d, a.d * b.d)
RMul[a \in Q, b \in Q] ==
    IF IsNaN(a) \/ IsNaN(b) THEN NaN ELSE Rat(a.n * b.n, a.d * b.d)
RDiv[a \in Q, b \in Q] ==
    IF IsNaN(a) \/ IsNaN(b) \/ b.n = 0 THEN NaN ELSE Rat(a.n * b.d, a.d * b.n)
RNeg[a \in Q] == IF IsNaN(a) THEN NaN ELSE [n |-> -a.n, d |-> a.d]

\* Comparisons with NaN are false, as in JavaScript.
RLe[a \in Q, b \in Q] == ~IsNaN(a) /\ ~IsNaN(b) /\ a.n * b.d <= b.n * a.d
RLt[a \in Q, b \in Q] == ~IsNaN(a) /\ ~IsNaN(b) /\ a.n * b.d < b.n * a.d
REq[a \in Q, b \in Q] == ~IsNaN(a) /\ ~IsNaN(b) /\ a.n * b.d = b.n * a.d

RMax[a \in Q, b \in Q] == IF RLt[a, b] THEN b ELSE a
RMin[a \in Q, b \in Q] == IF RLt[b, a] THEN b ELSE a

\* Math.floor and Math.ceil (\div rounds towards minus infinity).
RFloor[a \in Q] == IF IsNaN(a) THEN NaN ELSE Int2R(a.n \div a.d)
RCeil[a \in Q]  == IF IsNaN(a) THEN NaN ELSE Int2R(-((-a.n) \div a.d))

Pow10[p \in Int] ==
    IF p = 0 THEN Int2R(1)
    ELSE IF p > 0 THEN RMul[Int2R(10), Pow10[p - 1]]
    ELSE RDiv[Pow10[p + 1], Int2R(10)]

----------------------------------------------------------------------------
(* parseFloat: leading blanks, an optional sign, the longest decimal        *)
(* literal that prefixes the text; NaN when no digit is found.  (Exponents  *)
(* and "Infinity" occur in no text of the model and are left out.)          *)

Digits == <<"0", "1", "2", "3", "4", "5", "6", "7", "8", "9">>

IsDigit(c) == \E k \in 1..10 : Digits[k] = c
DigitVal(c) == (CHOOSE k \in 1..10 : Digits[k] = c) - 1

RECURSIVE SkipBlanks(_, _)
SkipBlanks(s, i) == IF i <= Len(s) /\ s[i] = " " THEN SkipBlanks(s, i + 1) ELSE i

\* Number of digit characters of s from position i on.
RECURSIVE DigitRun(_, _)
DigitRun(s, i) == IF i <= Len(s) /\ IsDigit(s[i]) THEN 1 + DigitRun(s, i + 1) ELSE 0

\* Value of the k digits of s that start at position i.
RECURSIVE DigitsValue(_, _, _)
DigitsValue(s, i, k) ==
    IF k = 0 THEN 0 ELSE 10 * DigitsValue(s, i, k - 1) + DigitVal(s[i + k - 1])

parseFloat(s) ==
    LET i0   == SkipBlanks(s, 1)
        neg  == i0 <= Len(s) /\ s[i0] = "-"
        i1   == IF i0 <= Len(s) /\ s[i0] \in {"-", "+"} THEN i0 + 1 ELSE i0
        ni   == DigitRun(s, i1)
        dot  == i1 + ni <= Len(s) /\ s[i1 + ni] = "."
        nf   == IF dot THEN DigitRun(s, i1 + ni + 1) ELSE 0
        mag  == RAdd[Int2R(DigitsValue(s, i1, ni)),
                     RDiv[Int2R(DigitsValue(s, i1 + ni + 1, nf)), Pow10[nf]]]
    IN  IF ni = 0 /\ nf = 0 THEN NaN
        ELSE IF neg THEN RNeg[mag] ELSE mag

----------------------------------------------------------------------------
(* The CSV rows the fetch can resolve with.  A row is a function from the   *)
(* columns it has to their texts; a column the row lacks reads undefined.   *)

ColAnimal == "Animal"
ColDiet   == "Diet"
ColSpeed  == "Average Speed (km/h)"

Row(a, d, s) == (ColAnimal :> a) @@ (ColDiet :> d) @@ (ColSpeed :> s)

Cheetah   == <<"C", "h", "e", "e", "t", "a", "h">>
Elephant  == <<"E", "l", "e", "p", "h", "a", "n", "t">>
Sloth     == <<"S", "l", "o", "t", "h">>
Carnivore == <<"C", "a", "r", "n", "i", "v", "o", "r", "e">>
Herbivore == <<"H", "e", "r", "b", "i", "v", "o", "r", "e">>
Omnivore  == <<"O", "m", "n", "i", "v", "o", "r", "e">>

Rows ==
    { Row(Cheetah, Carnivore, <<"1", "2", "0">>),
      Row(Elephant, Herbivore, <<"2", "5">>),
      Row(Sloth, Omnivore, <<"0", ".", "3">>),
      Row(Sloth, Herbivore, <<"0">>),
      Row(Cheetah, Carnivore, <<"9", "8", ".", "5">>),
      Row(<<>>, Carnivore, <<"1", "0">>),
      Row(Elephant, <<>>, <<"2", "5">>),
      Row(Elephant, Herbivore, <<>>),
      (ColAnimal :> Sloth) @@ (ColSpeed :> <<"7">>),
      Row(Sloth, Omnivore, <<"N", "/", "A">>),
      Row(Elephant, Herbivore, <<"-", "5">>) }

RowSeqs == UNION { [1..k -> Rows] : k \in 0..MaxRows }

\* The container sizes the layout can give (clientWidth, clientHeight).
Sizes == { <<0, 0>>, <<800, 500>>, <<1000, 300>> }

----------------------------------------------------------------------------
(* The loader: the .then callback of d3.csv *)

\* JavaScript truthiness of row[col]: undefined and "" are falsy.
Truthy(row, col) == col \in DOMAIN row /\ row[col] # <<>>

\* (mutant) the filter forgets the Animal field
RowFilter_NoAnimal(row) == Truthy(row, ColDiet) /\ Truthy(row, ColSpeed)

RowFilter(row) == Truthy(row, ColAnimal) /\ Truthy(row, ColDiet) /\ Truthy(row, ColSpeed)

RowMap(row) ==
    [ name  |-> row[ColAnimal],
      diet  |-> row[ColDiet],
      speed |-> parseFloat(IF ColSpeed \in DOMAIN row THEN row[ColSpeed] ELSE <<>>) ]

Mapped(data) ==
    LET kept == SelectSeq(data, RowFilter)
    IN  [i \in 1..Len(kept) |-> RowMap(kept[i])]

----------------------------------------------------------------------------
(* Chart dimensions *)

DefaultWidth  == 800
DefaultHeight == 500
MinWidth      == 600
MinHeight     == 400
MarginTop     == 70
MarginRight   == 60
MarginBottom  == 80
MarginLeft    == 100

IntMax(a, b) == IF a >= b THEN a ELSE b

\* graphRef.current?.clientWidth ?? 800, then Math.max(containerWidth, 600)
ChartWidth(ref, size)  == IntMax(IF ref THEN size[1] ELSE DefaultWidth, MinWidth)
ChartHeight(ref, size) == IntMax(IF ref THEN size[2] ELSE DefaultHeight, MinHeight)

----------------------------------------------------------------------------
(* x: d3.scaleBand().domain(names).range([left, width - right]).padding(0.1) *)

\* The domain of a band scale keeps the first occurrence of each name.
RECURSIVE Dedup(_)
Dedup(s) ==
    IF s = <<>> THEN <<>>
    ELSE LET front == Dedup(SubSeq(s, 1, Len(s) - 1))
             last  == s[Len(s)]
         IN  IF \E i \in 1..Len(front) : front[i] = last THEN front
             ELSE Append(front, last)

IndexOf(s, e) == CHOOSE i \in 1..Len(s) : s[i] = e

BandDomain(data) == Dedup([i \in 1..Len(data) |-> data[i].name])

Padding == Rat(1, 10)

\* (mutant) the range forgets the right margin
BandRange_NoRightMargin(width) == <<Int2R(MarginLeft), Int2R(width)>>

BandRange(width) == <<Int2R(MarginLeft), Int2R(width - MarginRight)>>

\* (mutant) paddingInner(0.1) in place of padding(0.1): no outer padding
BandScale_InnerOnly(domain, range) ==
    LET n      == Int2R(Len(domain))
        lo     == RMin[range[1], range[2]]
        hi     == RMax[range[1], range[2]]
        pInner == RMin[Int2R(1), Rat(1, 10)]
        step   == RDiv[RSub[hi, lo], RMax[Int2R(1), RSub[n, pInner]]]
        start  == RAdd[lo, RMul[RSub[RSub[hi, lo], RMul[step, RSub[n, pInner]]], Rat(1, 2)]]
    IN  [ domain    |-> domain,
          step      |-> step,
          bandwidth |-> RMul[step, RSub[Int2R(1), pInner]],
          start     |-> start ]

\* The band scale x: rescale() of d3-scale with paddingInner = paddingOuter =
\* 0.1, align = 0.5 and round = false.
BandScale(domain, range) ==
    LET n      == Int2R(Len(domain))
        lo     == RMin[range[1], range[2]]
        hi     == RMax[range[1], range[2]]
        pInner == RMin[Int2R(1), Padding]
        pOuter == Padding
        step   == RDiv[RSub[hi, lo],
                       RMax[Int2R(1), RAdd[RSub[n, pInner], RMul[pOuter, Int2R(2)]]]]
        start  == RAdd[lo, RMul[RSub[RSub[hi, lo], RMul[step, RSub[n, pInner]]], Rat(1, 2)]]
    IN  [ domain    |-> domain,
          step      |-> step,
          bandwidth |-> RMul[step, RSub[Int2R(1), pInner]],
          start     |-> start ]

\* x(name): the offset of the band of name.
BandX(x, name) == RAdd[x.start, RMul[x.step, Int2R(IndexOf(x.domain, name) - 1)]]

\* x.bandwidth()
Bandwidth(x) == x.bandwidth

----------------------------------------------------------------------------
(* y: d3.scaleLinear().domain([0, d3.max(speeds) ?? 0]).nice().range(...)   *)

\* d3.max skips NaN; it is undefined when no number is left, and ?? 0 applies.
RECURSIVE MaxFrom(_, _)
MaxFrom(data, k) ==
    IF k = 0 THEN NaN
    ELSE LET m == MaxFrom(data, k - 1)
             v == data[k].speed
         IN  IF IsNaN(v) THEN m
             ELSE IF IsNaN(m) \/ RLt[m, v] THEN v ELSE m

DomainMax(data) ==
    LET m == MaxFrom(data, Len(data)) IN IF IsNaN(m) THEN Int2R(0) ELSE m

\* d3-array tickIncrement: the tick step for about count ticks, negative
\* (the inverse of the step) when the step is below 1.  Not finite when
\* start = stop (log10 of 0), given as NaN.
\*   power = Math.floor(Math.log10(step))
TickPower[step \in Q] ==
    CHOOSE p \in -6..6 : RLe[Pow10[p], step] /\ RLt[step, Pow10[p + 1]]

\*   factor = error >= e10 ? 10 : error >= e5 ? 5 : error >= e2 ? 2 : 1
TickFactor[error \in Q] ==
    LET sq == RMul[error, error]
    IN  IF RLe[Int2R(50), sq] THEN 10
        ELSE IF RLe[Int2R(10), sq] THEN 5
        ELSE IF RLe[Int2R(2), sq] THEN 2
        ELSE 1

TickStep[power \in Int, factor \in Nat] ==
    IF power >= 0 THEN RMul[Int2R(factor), Pow10[power]]
    ELSE RNeg[RDiv[Pow10[-power], Int2R(factor)]]

tickIncrement(start, stop, count) ==
    LET step == RDiv[RSub[stop, start], Int2R(count)]
    IN  IF IsNaN(step) \/ step.n <= 0 THEN NaN
        ELSE TickStep[TickPower[step], TickFactor[RDiv[step, Pow10[TickPower[step]]]]]

\* The loop of scale.nice (count = 10, at most 10 rounds): the niced
\* <<start, stop>>, or <<>> when the loop ends without settling and the
\* domain stays as it was.
NiceLoop[start \in Q, stop \in Q, prestep \in Q, rounds \in Nat] ==
    IF rounds = 0 THEN <<>>
    ELSE CHOOSE r \in
           { IF REq[step, prestep] THEN <<start, stop>>
             ELSE IF RLt[Int2R(0), step]
                  THEN NiceLoop[RMul[RFloor[RDiv[start, step]], step],
                                RMul[RCeil[RDiv[stop, step]], step], step, rounds - 1]
             ELSE IF RLt[step, Int2R(0)]
                  THEN NiceLoop[RDiv[RCeil[RMul[start, step]], step],
                                RDiv[RFloor[RMul[stop, step]], step], step, rounds - 1]
             ELSE <<>> : step \in {tickIncrement(start, stop, 10)} } : TRUE

\* The loop's result for start <= stop, the ends as they were when it gives none.
NiceEnds[start \in Q, stop \in Q] ==
    CHOOSE d \in { IF r = <<>> THEN <<start, stop>> ELSE r :
                     r \in {NiceLoop[start, stop, NaN, 10]} } : TRUE

Swap[d \in Q \X Q] == <<d[2], d[1]>>

\* domain(d).nice(): the two ends are swapped for the loop when d[1] < d[0].
Nice(d) ==
    IF RLt[d[2], d[1]] THEN Swap[NiceEnds[d[2], d[1]]] ELSE NiceEnds[d[1], d[2]]

LinearDomain(data) == Nice(<<Int2R(0), DomainMax(data)>>)

\* (mutant) the range is not inverted
LinearRange_NotInverted(height) == <<Int2R(MarginTop), Int2R(height - MarginBottom)>>

LinearRange(height) == <<Int2R(height - MarginBottom), Int2R(MarginTop)>>

\* The linear scale y.
LinearScale(data, height) == [domain |-> LinearDomain(data), range |-> LinearRange(height)]

\* y(v) of a continuous scale without clamping: NaN is unknown; a domain of
\* one point maps everything to the middle of the range.
LinearY(y, v) ==
    IF IsNaN(v) THEN NaN
    ELSE LET span == RSub[y.domain[2], y.domain[1]]
             t    == IF span.n = 0 THEN Rat(1, 2) ELSE RDiv[RSub[v, y.domain[1]], span]
         IN  RAdd[y.range[1], RMul[t, RSub[y.range[2], y.range[1]]]]

----------------------------------------------------------------------------
(* color: d3.scaleOrdinal().domain(diets).range(["red", "green", "blue"])    *)

ColorRange == <<"red", "green", "blue">>

\* An ordinal scale appends a key it has not seen to its domain; the domain
\* after colouring the first k records.
RECURSIVE ColorDomain(_, _)
ColorDomain(data, k) ==
    IF k = 0 THEN <<Carnivore, Herbivore, Omnivore>>
    ELSE LET dom == ColorDomain(data, k - 1)
         IN  IF \E i \in 1..Len(dom) : dom[i] = data[k].diet THEN dom
             ELSE Append(dom, data[k].diet)

\* color(d.diet) for the k-th record
Color(data, k) ==
    ColorRange[((IndexOf(ColorDomain(data, k), data[k].diet) - 1) % Len(ColorRange)) + 1]

----------------------------------------------------------------------------
(* The render effect: useEffect(() => {...}, [animalData]) *)

\* One rect per record (the data join is by index), its attributes as set
\* from the scales x and y.
Rects(data, x, y, height) ==
    [ i \in 1..Len(data) |->
        [ datum  |-> data[i],
          x      |-> BandX(x, data[i].name),
          y      |-> LinearY(y, data[i].speed),
          width  |-> Bandwidth(x),
          height |-> RSub[Int2R(height - MarginBottom), LinearY(y, data[i].speed)],
          fill   |-> Color(data, i) ] ]

\* The svg element with its rects and its two axis groups.
SvgElement(data, width, height, x, y) ==
    [ width  |-> width,
      height |-> height,
      rects  |-> Rects(data, x, y, height),
      axes   |-> << [axis |-> "bottom", translate |-> <<0, height - MarginBottom>>],
                    [axis |-> "left",   translate |-> <<MarginLeft, 0>>] >> ]

\* The drawing of data at a size: the scales x and y are built once
\* (const x = ..., const y = ...) and the elements are drawn from them.
Svg(data, width, height) ==
    CHOOSE svg \in { SvgElement(data, width, height, x, y) :
                        x \in {BandScale(BandDomain(data), BandRange(width))},
                        y \in {LinearScale(data, height)} } : TRUE

NoRun == [ran |-> FALSE, cleared |-> FALSE, measured |-> FALSE,
          surface |-> FALSE, maxEvaluated |-> FALSE]

\* (mutant) the effect does not clear innerHTML
RenderEffect_NoClear(ref, size, data, children) ==
    IF Len(data) = 0
    THEN [ children |-> children,
           run |-> [ran |-> TRUE, cleared |-> FALSE, measured |-> FALSE,
                    surface |-> FALSE, maxEvaluated |-> FALSE] ]
    ELSE [ children |-> Append(children,
                               Svg(data, ChartWidth(ref, size), ChartHeight(ref, size))),
           run |-> [ran |-> TRUE, cleared |-> FALSE, measured |-> TRUE,
                    surface |-> TRUE, maxEvaluated |-> TRUE] ]

\* (mutant) the effect does not return on an empty animalData
RenderEffect_NoGuard(ref, size, data, children) ==
    [ children |-> Append(IF ref THEN <<>> ELSE children,
                          Svg(data, ChartWidth(ref, size), ChartHeight(ref, size))),
      run |-> [ran |-> TRUE, cleared |-> ref, measured |-> TRUE,
               surface |-> TRUE, maxEvaluated |-> TRUE] ]

\* One run of the effect body on the container's children: the children it
\* leaves and what it did.  innerHTML is cleared when the ref is set; an empty
\* animalData returns before anything is measured or built.
RenderEffect(ref, size, data, children) ==
    LET cleared == IF ref THEN <<>> ELSE children
    IN  IF Len(data) = 0
        THEN [ children |-> cleared,
               run |-> [ran |-> TRUE, cleared |-> ref, measured |-> FALSE,
                        surface |-> FALSE, maxEvaluated |-> FALSE] ]
        ELSE [ children |-> Append(cleared,
                                   Svg(data, ChartWidth(ref, size), ChartHeight(ref, size))),
               run |-> [ran |-> TRUE, cleared |-> ref, measured |-> TRUE,
                        surface |-> TRUE, maxEvaluated |-> TRUE] ]

----------------------------------------------------------------------------
(* The component's life *)

ChartInit ==
    /\ phase = "created"
    /\ graphRef = FALSE
    /\ clientSize \in Sizes
    /\ fetchState = "idle"
    /\ fetchCount = 0
    /\ csvData = <<>>
    /\ animalData = <<>>
    /\ setCalls = 0
    /\ setPhase = "none"
    /\ effectPending = FALSE
    /\ container = <<>>
    /\ lastRun = NoRun
    /\ renders = 0
    /\ reruns = 0

\* The first commit: the ref is attached, then both effects run in order:
\* the load effect issues d3.csv, the render effect runs on the initial state.
Mount ==
    /\ phase = "created"
    /\ phase' = "mounted"
    /\ graphRef' = TRUE
    /\ fetchState' = "pending"
    /\ fetchCount' = fetchCount + 1
    /\ \E r \in {RenderEffect(TRUE, clientSize, animalData, container)} :
          container' = r.children /\ lastRun' = r.run
    /\ renders' = renders + 1
    /\ UNCHANGED <<clientSize, csvData, animalData, setCalls, setPhase, effectPending, reruns>>
    /\ UNCHANGED cardVars

\* d3.csv resolves: the .then callback maps the rows and calls setAnimalData.
\* Nothing in the callback looks at whether the component is still mounted.
FetchResolve ==
    /\ fetchState = "pending"
    /\ \E data \in RowSeqs :
          /\ csvData' = data
          /\ animalData' = Mapped(data)
    /\ fetchState' = "resolved"
    /\ setCalls' = setCalls + 1
    /\ setPhase' = phase
    /\ effectPending' = (phase = "mounted")
    /\ renders' = 0
    /\ UNCHANGED <<phase, graphRef, clientSize, fetchCount, container, lastRun, reruns>>
    /\ UNCHANGED cardVars

\* (mutant) a rejection handler that fetches again
FetchReject_Retry ==
    /\ fetchState = "pending"
    /\ fetchCount < 3
    /\ fetchState' = "pending"
    /\ fetchCount' = fetchCount + 1
    /\ UNCHANGED <<phase, graphRef, clientSize, csvData, animalData, setCalls,
                   setPhase, effectPending, container, lastRun, renders, reruns>>
    /\ UNCHANGED cardVars

\* d3.csv rejects: the promise has no rejection handler.
FetchReject ==
    /\ fetchState = "pending"
    /\ fetchState' = "rejected"
    /\ UNCHANGED <<phase, graphRef, clientSize, fetchCount, csvData, animalData, setCalls,
                   setPhase, effectPending, container, lastRun, renders, reruns>>
    /\ UNCHANGED cardVars

\* The commit after setAnimalData: animalData changed, so the render effect runs.
CommitRender ==
    /\ phase = "mounted"
    /\ effectPending
    /\ effectPending' = FALSE
    /\ \E r \in {RenderEffect(graphRef, clientSize, animalData, container)} :
          container' = r.children /\ lastRun' = r.run
    /\ renders' = renders + 1
    /\ UNCHANGED <<phase, graphRef, clientSize, fetchState, fetchCount, csvData, animalData,
                   setCalls, setPhase, reruns>>
    /\ UNCHANGED cardVars

\* The render effect is invoked again on unchanged data (a hot reload).
Rerender ==
    /\ phase = "mounted"
    /\ ~effectPending
    /\ reruns < MaxReruns
    /\ reruns' = reruns + 1
    /\ \E r \in {RenderEffect(graphRef, clientSize, animalData, container)} :
          container' = r.children /\ lastRun' = r.run
    /\ renders' = renders + 1
    /\ UNCHANGED <<phase, graphRef, clientSize, fetchState, fetchCount, csvData, animalData,
                   setCalls, setPhase, effectPending>>
    /\ UNCHANGED cardVars

\* The layout gives the container another size.  The effect's dependency list
\* is [animalData] and the component listens to no resize: nothing else changes.
Resize ==
    /\ phase = "mounted"
    /\ \E size \in Sizes \ {clientSize} : clientSize' = size
    /\ UNCHANGED <<phase, graphRef, fetchState, fetchCount, csvData, animalData, setCalls,
                   setPhase, effectPending, container, lastRun, renders, reruns>>
    /\ UNCHANGED cardVars

\* The component is torn down: the div leaves the document, the ref is nulled.
\* No effect returns a cleanup, so a pending fetch stays pending.
Unmount ==
    /\ phase = "mounted"
    /\ phase' = "unmounted"
    /\ graphRef' = FALSE
    /\ container' = <<>>
    /\ effectPending' = FALSE
    /\ UNCHANGED <<clientSize, fetchState, fetchCount, csvData, animalData, setCalls,
                   setPhase, lastRun, renders, reruns>>
    /\ UNCHANGED cardVars

----------------------------------------------------------------------------
(* SpeciesCard: props, record store and form values *)

\* A nullable value: <<>> is null, <<v>> is the value v.
Null == <<>>
Some(v) == <<v>>

Owner == "user-1"
Other == "user-2"
Users == {Owner, Other}

Cavia == <<"C", "a", "v", "i", "a">>
Felis == <<"F", "e", "l", "i", "s">>

\* The species table: the card's species and one more row.
InitialStore ==
    [ id \in {1, 2} |->
        [ id               |-> id,
          author           |-> IF id = 1 THEN Owner ELSE Other,
          scientific_name  |-> IF id = 1 THEN Cavia ELSE Felis,
          common_name      |-> Null,
          kingdom          |-> "Animalia",
          total_population |-> Null,
          image            |-> Null,
          description      |-> Null ] ]

\* What the user can put into the fields the model edits.
ScientificNames == { <<>>, <<" ">>, <<" ", "F", "e", "l", "i", "s", " ">> }
CommonNames     == { Null, Some(<<" ">>), Some(<<"c", "a", "t">>) }
Populations     == { Null, Some(0), Some(300) }

\* String.prototype.trim
RECURSIVE TrimLeft(_)
TrimLeft(t) == IF t # <<>> /\ Head(t) = " " THEN TrimLeft(Tail(t)) ELSE t

RECURSIVE TrimRight(_)
TrimRight(t) ==
    IF t # <<>> /\ t[Len(t)] = " " THEN TrimRight(SubSeq(t, 1, Len(t) - 1)) ELSE t

Trim(t) == TrimRight(TrimLeft(t))

\* (!val || val.trim() === "" ? null : val.trim()) of a nullable string
BlankToNull(val) ==
    IF val = Null THEN Null
    ELSE IF Trim(val[1]) = <<>> THEN Null ELSE Some(Trim(val[1]))

\* speciesSchema accepts the values: a scientific name that is not blank and
\* a population that is null or a positive integer (the kingdom, image and
\* description fields keep values the schema accepts).
SchemaAccepts(values) ==
    /\ Len(Trim(values.scientific_name)) >= 1
    /\ IF values.total_population = Null THEN TRUE ELSE values.total_population[1] >= 1

\* The values as speciesSchema transforms them: the input of onSubmit.
SchemaOutput(values) ==
    [ scientific_name  |-> Trim(values.scientific_name),
      common_name      |-> BlankToNull(values.common_name),
      kingdom          |-> values.kingdom,
      total_population |-> values.total_population,
      image            |-> BlankToNull(values.image),
      description      |-> BlankToNull(values.description) ]

FormFields ==
    {"scientific_name", "common_name", "kingdom", "total_population", "image", "description"}

\* defaultValues of the current props
DefaultValues(sp) == [f \in FormFields |-> sp[f]]

\* supabase.from("species").update(input).eq("id", id)
UpdateEq(table, input, id) ==
    [ k \in DOMAIN table |->
        IF table[k].id = id
        THEN [f \in DOMAIN table[k] |-> IF f \in DOMAIN input THEN input[f] ELSE table[k][f]]
        ELSE table[k] ]

RemoveAt(q, i) == SubSeq(q, 1, i - 1) \o SubSeq(q, i + 1, Len(q))

NoOutcome == [error |-> FALSE, did |-> <<>>, toast |-> "none", variant |-> "none"]

----------------------------------------------------------------------------
(* SpeciesCard: the component *)

\* The card rendered for user u: useState(false), useState(false),
\* useState(true), useForm({defaultValues}).
CardInitFor(u) ==
    /\ userId = u
    /\ store = InitialStore
    /\ species = InitialStore[1]
    /\ isOpenOne = FALSE
    /\ isOpenTwo = FALSE
    /\ showFormDialog = TRUE
    /\ form = DefaultValues(InitialStore[1])
    /\ pending = <<>>
    /\ outcome = NoOutcome
    /\ resets = 0
    /\ refreshes = 0
    /\ refreshPending = FALSE
    /\ submits = 0

\* "Learn More" and its dialog's Close: onOpenChange = setIsOpenOne
ToggleInfo ==
    /\ isOpenOne' = ~isOpenOne
    /\ UNCHANGED <<userId, species, store, isOpenTwo, showFormDialog, form, pending,
                   outcome, resets, refreshes, refreshPending, submits>>
    /\ UNCHANGED chartVars

\* (mutant) the request opens the dialog without the ownership test
handleEditRequest_NoCheck ==
    /\ showFormDialog' = showFormDialog
    /\ isOpenTwo' = TRUE

handleEditRequest ==
    /\ showFormDialog' = (species.author = userId)
    /\ isOpenTwo' = TRUE

\* A click on "Edit", which is reachable while the edit dialog is closed.
ClickEdit ==
    /\ ~isOpenTwo
    /\ handleEditRequest
    /\ UNCHANGED <<userId, species, store, isOpenOne, form, pending, outcome, resets,
                   refreshes, refreshPending, submits>>
    /\ UNCHANGED chartVars

\* The edit dialog is closed (Cancel, Close, Escape): onOpenChange = setIsOpenTwo
CloseEdit ==
    /\ isOpenTwo
    /\ isOpenTwo' = FALSE
    /\ UNCHANGED <<userId, species, store, isOpenOne, showFormDialog, form, pending,
                   outcome, resets, refreshes, refreshPending, submits>>
    /\ UNCHANGED chartVars

\* The user changes a field of the form, which only the form branch renders.
EditField ==
    /\ isOpenTwo
    /\ showFormDialog
    /\ \/ \E v \in ScientificNames \ {form.scientific_name} :
              form' = [form EXCEPT !.scientific_name = v]
       \/ \E v \in CommonNames \ {form.common_name} :
              form' = [form EXCEPT !.common_name = v]
       \/ \E v \in Populations \ {form.total_population} :
              form' = [form EXCEPT !.total_population = v]
    /\ UNCHANGED <<userId, species, store, isOpenOne, isOpenTwo, showFormDialog, pending,
                   outcome, resets, refreshes, refreshPending, submits>>
    /\ UNCHANGED chartVars

\* "Edit Species": form.handleSubmit(onSubmit) calls onSubmit with the
\* schema's output when the schema accepts the values; onSubmit sends the
\* update and awaits the answer.
Submit ==
    /\ isOpenTwo
    /\ showFormDialog
    /\ SchemaAccepts(form)
    /\ submits < MaxSubmits
    /\ submits' = submits + 1
    /\ pending' = Append(pending, [ input    |-> SchemaOutput(form),
                                    id       |-> species.id,
                                    defaults |-> DefaultValues(species) ])
    /\ UNCHANGED <<userId, species, store, isOpenOne, isOpenTwo, showFormDialog, form,
                   outcome, resets, refreshes, refreshPending>>
    /\ UNCHANGED chartVars

\* The update succeeded: form.reset(defaultValues), setIsOpenTwo(false),
\* router.refresh(), toast "Species edited!".
UpdateOk ==
    \E i \in 1..Len(pending) :
        /\ pending' = RemoveAt(pending, i)
        /\ store' = UpdateEq(store, pending[i].input, pending[i].id)
        /\ form' = pending[i].defaults
        /\ resets' = resets + 1
        /\ isOpenTwo' = FALSE
        /\ refreshes' = refreshes + 1
        /\ refreshPending' = TRUE
        /\ outcome' = [ error |-> FALSE,
                        did   |-> <<"form.reset", "setIsOpenTwo(false)", "router.refresh", "toast">>,
                        toast |-> "Species edited!",
                        variant |-> "default" ]
        /\ UNCHANGED <<userId, species, isOpenOne, showFormDialog, submits>>
        /\ UNCHANGED chartVars

\* (mutant) the error branch does not return
UpdateError_NoReturn ==
    \E i \in 1..Len(pending) :
        /\ pending' = RemoveAt(pending, i)
        /\ form' = pending[i].defaults
        /\ resets' = resets + 1
        /\ isOpenTwo' = FALSE
        /\ refreshes' = refreshes + 1
        /\ refreshPending' = TRUE
        /\ outcome' = [ error |-> TRUE,
                        did   |-> <<"toast", "form.reset", "setIsOpenTwo(false)",
                                    "router.refresh", "toast">>,
                        toast |-> "Species edited!",
                        variant |-> "default" ]
        /\ UNCHANGED <<userId, species, store, isOpenOne, showFormDialog, submits>>
        /\ UNCHANGED chartVars

\* The update returned an error: the destructive toast, and onSubmit returns.
UpdateError ==
    \E i \in 1..Len(pending) :
        /\ pending' = RemoveAt(pending, i)
        /\ outcome' = [ error |-> TRUE,
                        did   |-> <<"toast">>,
                        toast |-> "Something went wrong.",
                        variant |-> "destructive" ]
        /\ UNCHANGED <<userId, species, store, isOpenOne, isOpenTwo, showFormDialog, form,
                       resets, refreshes, refreshPending, submits>>
        /\ UNCHANGED chartVars

\* router.refresh() delivers the props read anew from the store.
PropsRefresh ==
    /\ refreshPending
    /\ refreshPending' = FALSE
    /\ species' = store[species.id]
    /\ UNCHANGED <<userId, store, isOpenOne, isOpenTwo, showFormDialog, form, pending,
                   outcome, resets, refreshes, submits>>
    /\ UNCHANGED chartVars

\* The chart page: the chart's life beside a card nobody touches.
Init == ChartInit /\ CardInitFor(Owner)

CardNext ==
    \/ ToggleInfo
    \/ ClickEdit
    \/ CloseEdit
    \/ EditField
    \/ Submit
    \/ UpdateOk
    \/ UpdateError
    \/ PropsRefresh

\* The species page: a card for the author or for another user.
CardInit == ChartInit /\ \E u \in Users : CardInitFor(u)

CardSpec == CardInit /\ [][CardNext]_vars

Next ==
    \/ Mount
    \/ FetchResolve
    \/ FetchReject
    \/ CommitRender
    \/ Rerender
    \/ Resize
    \/ Unmount

Spec == Init /\ [][Next]_vars

\* React runs the effect of every commit of a mounted component.
FairSpec == Spec /\ WF_vars(CommitRender)

----------------------------------------------------------------------------
(* Properties *)

\* The effect has run on the current animalData and no commit is waiting.
Settled == phase = "mounted" /\ ~effectPending /\ lastRun.ran

Svgs == { container[k] : k \in 1..Len(container) }

RECURSIVE RectCount(_)
RectCount(children) ==
    IF children = <<>> THEN 0
    ELSE Len(children[1].rects) + RectCount(Tail(children))

DistinctNames(svg) ==
    \A i, j \in 1..Len(svg.rects) :
        i # j => svg.rects[i].datum.name # svg.rects[j].datum.name

\* A valid record: its value is finite and not negative.
Valid(rect) == RLe[Int2R(0), rect.datum.speed]

\* C1: after a successful load every record has a finite numeric value; a row
\* whose speed text does not parse is not stored as a record with value NaN.
C1_NoNaNRecord ==
    fetchState = "resolved" =>
        \A i \in 1..Len(animalData) : ~IsNaN(animalData[i].speed)

\* A row with all three fields present and non-empty.
Complete(row) ==
    \A col \in {ColAnimal, ColDiet, ColSpeed} : col \in DOMAIN row /\ Len(row[col]) > 0

\* C2: the loaded record set is exactly the complete rows of the input, in
\* input order: an increasing map of the records onto the complete rows
\* carries each record to the row it was made from.
C2_ExactlyCompleteRows ==
    fetchState = "resolved" =>
        \E f \in [1..Len(animalData) -> 1..Len(csvData)] :
            /\ \A i, j \in 1..Len(animalData) : i < j => f[i] < f[j]
            /\ { f[i] : i \in 1..Len(animalData) }
                   = { k \in 1..Len(csvData) : Complete(csvData[k]) }
            /\ \A i \in 1..Len(animalData) :
                   /\ animalData[i].name = csvData[f[i]][ColAnimal]
                   /\ animalData[i].diet = csvData[f[i]][ColDiet]

C2_Witness ==
    /\ fetchState = "resolved"
    /\ Len(csvData) = 2
    /\ Len(animalData) = 1
    /\ csvData[1][ColAnimal] = <<>>
    /\ animalData[1].name = csvData[2][ColAnimal]

\* C3 as stated: after any renders the container holds exactly one svg and as
\* many rects as there are records.
C3_ExactlyOneSurface ==
    Settled => Len(container) = 1 /\ RectCount(container) = Len(animalData)

\* C3 as amended: after any renders the container holds one svg when the
\* record set is not empty and none when it is empty, and as many rects as
\* there are records: renders do not accumulate.
C3_NoAccumulation ==
    Settled =>
        /\ Len(container) = (IF animalData = <<>> THEN 0 ELSE 1)
        /\ RectCount(container) = Len(animalData)

C3_Witness ==
    Settled /\ renders >= 3 /\ Len(animalData) = 2 /\ RectCount(container) = 2

\* C4: setAnimalData is never called once the component is unmounted.
C4_NoSetAfterUnmount == setPhase # "unmounted"

\* C5: on an empty record set the render clears the container and returns
\* before measuring, creating the svg or evaluating the maximum; the
\* container is left with no svg, rect or axis.
C5_EmptyShortCircuit ==
    (Settled /\ animalData = <<>>) =>
        /\ lastRun.cleared
        /\ ~lastRun.measured
        /\ ~lastRun.surface
        /\ ~lastRun.maxEvaluated
        /\ container = <<>>

C5_Witness ==
    /\ Settled
    /\ fetchState = "resolved"
    /\ Len(csvData) >= 1
    /\ animalData = <<>>
    /\ renders >= 1
    /\ container = <<>>

\* usable width = (width - rightMargin) - leftMargin
Usable(svg) == (svg.width - MarginRight) - MarginLeft

RAbs(a) == IF a.n < 0 THEN RNeg[a] ELSE a

\* C6 as stated: with n >= 1 records of distinct names the band width is
\* usable / n x (1 - 0.1), here to within one pixel.
C6_BandwidthOverN ==
    \A svg \in Svgs :
        (Len(svg.rects) >= 1 /\ DistinctNames(svg)) =>
            \A i \in 1..Len(svg.rects) :
                RLt[RAbs(RSub[svg.rects[i].width,
                              Rat(9 * Usable(svg), 10 * Len(svg.rects))]), Int2R(1)]

\* C6 as amended: with n >= 1 records of distinct names the band width is
\* usable / (n + 0.1) x (1 - 0.1): the range is divided into
\* n - paddingInner + 2 paddingOuter steps.
C6_BandwidthOverNPlusPadding ==
    \A svg \in Svgs :
        (Len(svg.rects) >= 1 /\ DistinctNames(svg)) =>
            \A i \in 1..Len(svg.rects) :
                REq[svg.rects[i].width, Rat(9 * Usable(svg), 10 * Len(svg.rects) + 1)]

C6_Witness ==
    \E svg \in Svgs : Len(svg.rects) = 2 /\ DistinctNames(svg) /\ svg.width = 1000

\* C7: with distinct names the bands do not overlap, follow the order of the
\* data from left to right and lie inside [leftMargin, width - rightMargin].
C7_BandsDisjointOrderedInside ==
    \A svg \in Svgs :
        DistinctNames(svg) =>
            /\ \A i, j \in 1..Len(svg.rects) :
                   i < j => RLe[RAdd[svg.rects[i].x, svg.rects[i].width], svg.rects[j].x]
            /\ \A i \in 1..Len(svg.rects) :
                   /\ RLe[Int2R(MarginLeft), svg.rects[i].x]
                   /\ RLe[RAdd[svg.rects[i].x, svg.rects[i].width],
                          Int2R(svg.width - MarginRight)]
                   /\ RLt[Int2R(0), svg.rects[i].width]

C7_Witness ==
    \E svg \in Svgs :
        /\ Len(svg.rects) = 2
        /\ DistinctNames(svg)
        /\ RLt[svg.rects[1].x, svg.rects[2].x]

\* C8: over the valid records of a drawing y does not increase with the
\* value, every y lies in [topMargin, height - bottomMargin], every bar
\* height is (height - bottomMargin) - y and not negative, and the bar of the
\* larger value is at least as tall, at every container size.
C8_ValueScaleMonotone ==
    \A svg \in Svgs :
        /\ \A i \in 1..Len(svg.rects) :
               Valid(svg.rects[i]) =>
                   /\ RLe[Int2R(MarginTop), svg.rects[i].y]
                   /\ RLe[svg.rects[i].y, Int2R(svg.height - MarginBottom)]
                   /\ REq[svg.rects[i].height,
                          RSub[Int2R(svg.height - MarginBottom), svg.rects[i].y]]
                   /\ RLe[Int2R(0), svg.rects[i].height]
        /\ \A i, j \in 1..Len(svg.rects) :
               (/\ Valid(svg.rects[i])
                /\ Valid(svg.rects[j])
                /\ RLe[svg.rects[i].datum.speed, svg.rects[j].datum.speed]) =>
                   /\ RLe[svg.rects[j].y, svg.rects[i].y]
                   /\ RLe[svg.rects[i].height, svg.rects[j].height]

C8_Witness ==
    \E svg \in Svgs :
        /\ Len(svg.rects) = 2
        /\ svg.height = 500
        /\ Valid(svg.rects[1])
        /\ Valid(svg.rects[2])
        /\ RLt[svg.rects[1].datum.speed, svg.rects[2].datum.speed]
        /\ RLt[svg.rects[1].height, svg.rects[2].height]

\* The container shows what a render of the current size and record set draws.
Drawn == container = RenderEffect(TRUE, clientSize, animalData, <<>>).children

\* C9: after any change of the record set or of the container's size a
\* render eventually runs, so that the drawing of a mounted component ends up
\* matching the current size and record set.
C9_ReactiveOnBothInputs ==
    (phase = "mounted" /\ ~Drawn) ~> (Drawn \/ phase # "mounted")

----------------------------------------------------------------------------
(* SpeciesCard properties *)

\* A step in which an onSubmit call gets the answer of its update.
Answered == Len(pending') < Len(pending)

\* C11: whenever the edit dialog is open, showFormDialog equals the
\* ownership test species.author = userId; a user who is not the author
\* never has the edit form, so that user never calls onSubmit: no update is
\* sent or in flight, and the form values and the records stay as they were.
C11_FormOnlyForAuthor ==
    /\ isOpenTwo => (showFormDialog = (species.author = userId))
    /\ species.author # userId =>
          /\ submits = 0
          /\ pending = <<>>
          /\ store = InitialStore
          /\ form = DefaultValues(InitialStore[1])

\* C11 witness: the edit dialog is open for a user who is not the author
\* and shows the denial, with the "Learn More" dialog's state flipped too.
C11_Witness ==
    /\ species.author # userId
    /\ isOpenTwo
    /\ ~showFormDialog
    /\ isOpenOne

\* C12: the answer of the update decides what onSubmit does next. On an
\* error only the destructive "Something went wrong." toast happens: the
\* form values, the open state of the edit dialog and the route are left as
\* they were. On no error the form is reset to the default values, the
\* dialog is closed, the route is refreshed and "Species edited!" is
\* toasted, in that order. Resets and refreshes happen in no other step, and
\* the update changes no record whose id differs from species.id.
C12_OutcomeDecides ==
    [][ /\ Answered =>
            IF outcome'.error
            THEN /\ outcome'.did = <<"toast">>
                 /\ outcome'.toast = "Something went wrong."
                 /\ outcome'.variant = "destructive"
                 /\ form' = form
                 /\ isOpenTwo' = isOpenTwo
                 /\ resets' = resets
                 /\ refreshes' = refreshes
                 /\ refreshPending' = refreshPending
            ELSE /\ outcome'.did = <<"form.reset", "setIsOpenTwo(false)",
                                     "router.refresh", "toast">>
                 /\ outcome'.toast = "Species edited!"
                 /\ \E i \in 1..Len(pending) :
                        /\ pending' = RemoveAt(pending, i)
                        /\ form' = pending[i].defaults
                 /\ resets' = resets + 1
                 /\ isOpenTwo' = FALSE
                 /\ refreshes' = refreshes + 1
                 /\ refreshPending'
        /\ (resets' # resets \/ refreshes' # refreshes) => (Answered /\ ~outcome'.error)
        /\ \A k \in DOMAIN store : store[k].id # species.id => store'[k] = store[k]
      ]_vars

\* C12 witness: after one update that succeeded and was refreshed, a second
\* one has answered with an error: its toast is the last thing done, the
\* dialog is still open and the form still holds the edited values.
C12_Witness ==
    /\ outcome.error
    /\ outcome.toast = "Something went wrong."
    /\ pending = <<>>
    /\ isOpenTwo
    /\ form # DefaultValues(species)
    /\ refreshes = 1
    /\ store # InitialStore

====
